---- MODULE Spec2Model ----
(***************************************************************************)
(* generate_icons (src/generate_icons.py): one source image is resized to  *)
(* a fixed manifest of PNGs, packed into two ICO containers, copied into a *)
(* temporary iconset directory that iconutil compiles to icon.icns, and    *)
(* the temporary directory is removed.                                     *)
(*                                                                         *)
(* The filesystem is three directories (icon destination, web destination, *)
(* ProjectLens.iconset), each an existence flag and a set of files; a file *)
(* is [name, dims], dims being the pixel sizes it holds (one for a PNG,    *)
(* the embedded frames for an ICO, none for the ICNS bundle).  Every       *)
(* statement of generate_icons that touches the filesystem is one action,  *)
(* taken by an invocation p; pc[p] is the statement p executes next.       *)
(***************************************************************************)
EXTENDS Integers, Sequences, FiniteSets, TLC

VARIABLES srcExists, srcDecodable, srcSize,
          iconDirExists, iconFiles,
          pubDirExists, pubFiles,
          iconsetExists, iconsetFiles,
          pc, idx, result, compOutcome, console, wrote, entry, runs

\* srcExists, srcDecodable, srcSize: the file at source_path.
\* pc[p], idx[p]: the statement and the loop position of invocation p.
\* result[p]: "running", "returned", or "aborted" by an uncaught exception.
\* compOutcome[p]: how the iconutil call of p ended ("none" before it).
\* console[p]: the lines p has printed.
\* wrote[p]: the paths p has made or written so far.
\* entry[p]: the filesystem as it was when p was called.
\* runs: the invocations started so far.
vars == << srcExists, srcDecodable, srcSize, iconDirExists, iconFiles,
           pubDirExists, pubFiles, iconsetExists, iconsetFiles,
           pc, idx, result, compOutcome, console, wrote, entry, runs >>

fsVars == << iconDirExists, iconFiles, pubDirExists, pubFiles,
             iconsetExists, iconsetFiles >>

envVars == << srcExists, srcDecodable, srcSize >>

\* Invocations of generate_icons that may be in progress at the same time.
Procs == {1, 2}

\* Number of invocations started in one behaviour.
MaxRuns == 2

\* Side lengths of the (square) source image that are tried.
SrcSizes == {64, 1024}

----------------------------------------------------------------------------
\* The manifests, in the iteration order of the dict literals.

\* A slip in one file name of the flat manifest.
SizesMisnamed ==
    << [name |-> "32x32.png",      size |-> <<32, 32>>],
       [name |-> "128x128.png",    size |-> <<128, 128>>],
       [name |-> "128x128@2x.png", size |-> <<256, 256>>],
       [name |-> "icons.png",      size |-> <<512, 512>>] >>

Sizes ==
    << [name |-> "32x32.png",      size |-> <<32, 32>>],
       [name |-> "128x128.png",    size |-> <<128, 128>>],
       [name |-> "128x128@2x.png", size |-> <<256, 256>>],
       [name |-> "icon.png",       size |-> <<512, 512>>] >>

\* The 64 px frame left out of the application icon.
IcoSizesWithout64 == { <<256, 256>>, <<128, 128>>, <<48, 48>>, <<32, 32>>, <<16, 16>> }

IcoSizes == { <<256, 256>>, <<128, 128>>, <<64, 64>>, <<48, 48>>, <<32, 32>>, <<16, 16>> }

FaviconSizes == { <<48, 48>>, <<32, 32>>, <<16, 16>> }

IconsetSizes ==
    << [name |-> "icon_16x16.png",      size |-> <<16, 16>>],
       [name |-> "icon_16x16@2x.png",   size |-> <<32, 32>>],
       [name |-> "icon_32x32.png",      size |-> <<32, 32>>],
       [name |-> "icon_32x32@2x.png",   size |-> <<64, 64>>],
       [name |-> "icon_128x128.png",    size |-> <<128, 128>>],
       [name |-> "icon_128x128@2x.png", size |-> <<256, 256>>],
       [name |-> "icon_256x256.png",    size |-> <<256, 256>>],
       [name |-> "icon_256x256@2x.png", size |-> <<512, 512>>],
       [name |-> "icon_512x512.png",    size |-> <<512, 512>>],
       [name |-> "icon_512x512@2x.png", size |-> <<1024, 1024>>] >>

\* The fixed name of the temporary directory, relative to the working directory.
iconset_dir == "ProjectLens.iconset"

\* The for loop over a manifest ends after its last entry.
LoopEndsEarly(manifest, i) == i >= Len(manifest) - 1

LoopEnds(manifest, i) == i >= Len(manifest)

NamesOf(manifest) == { manifest[i].name : i \in 1..Len(manifest) }

----------------------------------------------------------------------------
\* The imaging operations.

\* Image.open(source_path).convert("RGBA"): the decoded source raster.
SourceImage == [w |-> srcSize, h |-> srcSize]

\* thumbnail() in place of resize(): never enlarges the image.
ResizeNoUpscale(img, size) ==
    [w |-> IF size[1] < img.w THEN size[1] ELSE img.w,
     h |-> IF size[2] < img.h THEN size[2] ELSE img.h]

\* img.resize(size, LANCZOS): a new raster of exactly the requested size.
Resize(img, size) == [w |-> size[1], h |-> size[2]]

\* resized_img.save(path): a PNG holding one raster.
PngFile(name, img) == [name |-> name, dims |-> { <<img.w, img.h>> }]

\* img.save(path, format='ICO', sizes=...): the ICO encoder embeds one frame
\* per requested size, skipping the sizes that exceed the image or 256 px.
IcoFile(name, img, sizes) ==
    [name |-> name,
     dims |-> { s \in sizes : s[1] <= img.w /\ s[2] <= img.h
                              /\ s[1] <= 256 /\ s[2] <= 256 }]

\* The bundle iconutil writes.
IcnsFile == [name |-> "icon.icns", dims |-> {}]

\* Writing a file replaces any file of the same name in the directory.
WriteFile(files, f) == { g \in files : g.name # f.name } \cup {f}

FileNames(files) == { f.name : f \in files }

\* print(...): a line on the invocation's console.
Say(p, msg) == console' = [console EXCEPT ![p] = @ \cup {msg}]

Snapshot ==
    [iconDirExists |-> iconDirExists, iconFiles |-> iconFiles,
     pubDirExists |-> pubDirExists, pubFiles |-> pubFiles,
     iconsetExists |-> iconsetExists, iconsetFiles |-> iconsetFiles]

----------------------------------------------------------------------------
Init ==
    /\ srcExists \in BOOLEAN
    /\ srcDecodable \in BOOLEAN
    /\ srcSize \in SrcSizes
    /\ iconDirExists \in BOOLEAN
    /\ iconFiles = {}
    /\ pubDirExists \in BOOLEAN
    /\ pubFiles = {}
    /\ iconsetExists = FALSE
    /\ iconsetFiles = {}
    /\ pc = [p \in Procs |-> "idle"]
    /\ idx = [p \in Procs |-> 1]
    /\ result = [p \in Procs |-> "none"]
    /\ compOutcome = [p \in Procs |-> "none"]
    /\ console = [p \in Procs |-> {}]
    /\ wrote = [p \in Procs |-> {}]
    /\ entry = [p \in Procs |-> Snapshot]
    /\ runs = 0

\* An uncaught exception leaves the function at once.
Abort(p) ==
    /\ pc' = [pc EXCEPT ![p] = "done"]
    /\ result' = [result EXCEPT ![p] = "aborted"]

Goto(p, label) ==
    /\ pc' = [pc EXCEPT ![p] = label]
    /\ UNCHANGED result

\* generate_icons(source, tauri_icons, public) is called; the source file may
\* have been put in place or removed since the previous run.
Start(p) ==
    /\ pc[p] \in {"idle", "done"}
    /\ runs < MaxRuns
    /\ runs' = runs + 1
    /\ srcExists' \in BOOLEAN
    /\ pc' = [pc EXCEPT ![p] = "check"]
    /\ idx' = [idx EXCEPT ![p] = 1]
    /\ result' = [result EXCEPT ![p] = "running"]
    /\ compOutcome' = [compOutcome EXCEPT ![p] = "none"]
    /\ console' = [console EXCEPT ![p] = {}]
    /\ wrote' = [wrote EXCEPT ![p] = {}]
    /\ entry' = [entry EXCEPT ![p] = Snapshot]
    /\ UNCHANGED << srcDecodable, srcSize >>
    /\ UNCHANGED fsVars

\* The existence check placed after the two os.makedirs calls.
CheckSourceAfterMakedirs(p) ==
    /\ pc[p] = "check"
    /\ IF srcExists
         THEN /\ Goto(p, "open")
              /\ UNCHANGED << console, iconDirExists, pubDirExists >>
         ELSE /\ iconDirExists' = TRUE
              /\ pubDirExists' = TRUE
              /\ Say(p, "Error: Source file not found")
              /\ pc' = [pc EXCEPT ![p] = "done"]
              /\ result' = [result EXCEPT ![p] = "returned"]
    /\ UNCHANGED << idx, compOutcome, wrote, entry, runs >>
    /\ UNCHANGED envVars
    /\ UNCHANGED << iconFiles, pubFiles, iconsetExists, iconsetFiles >>

\* if not os.path.exists(source_path): print(...); return
CheckSource(p) ==
    /\ pc[p] = "check"
    /\ IF srcExists
         THEN /\ Goto(p, "open")
              /\ UNCHANGED console
         ELSE /\ Say(p, "Error: Source file not found")
              /\ pc' = [pc EXCEPT ![p] = "done"]
              /\ result' = [result EXCEPT ![p] = "returned"]
    /\ UNCHANGED << idx, compOutcome, wrote, entry, runs >>
    /\ UNCHANGED envVars
    /\ UNCHANGED fsVars

\* img = Image.open(source_path).convert("RGBA")
OpenSource(p) ==
    /\ pc[p] = "open"
    /\ IF srcDecodable THEN Goto(p, "mkdir_icons") ELSE Abort(p)
    /\ UNCHANGED << idx, compOutcome, console, wrote, entry, runs >>
    /\ UNCHANGED envVars
    /\ UNCHANGED fsVars

\* os.makedirs(tauri_icons_dir, exist_ok=True)
MakeIconsDir(p) ==
    /\ pc[p] = "mkdir_icons"
    /\ \E ok \in BOOLEAN :
         IF ok THEN /\ iconDirExists' = TRUE
                    /\ wrote' = [wrote EXCEPT ![p] = @ \cup {"tauri_icons_dir"}]
                    /\ Goto(p, "mkdir_public")
               ELSE /\ UNCHANGED << iconDirExists, wrote >>
                    /\ Abort(p)
    /\ UNCHANGED << iconFiles, pubDirExists, pubFiles, iconsetExists, iconsetFiles >>
    /\ UNCHANGED << idx, compOutcome, console, entry, runs >>
    /\ UNCHANGED envVars

\* os.makedirs(public_dir, exist_ok=True)
MakePublicDir(p) ==
    /\ pc[p] = "mkdir_public"
    /\ \E ok \in BOOLEAN :
         IF ok THEN /\ pubDirExists' = TRUE
                    /\ wrote' = [wrote EXCEPT ![p] = @ \cup {"public_dir"}]
                    /\ Goto(p, "pngs")
               ELSE /\ UNCHANGED << pubDirExists, wrote >>
                    /\ Abort(p)
    /\ UNCHANGED << iconDirExists, iconFiles, pubFiles, iconsetExists, iconsetFiles >>
    /\ UNCHANGED << idx, compOutcome, console, entry, runs >>
    /\ UNCHANGED envVars

\* One iteration of: for filename, size in sizes.items(): resize, save, print
SavePng(p) ==
    /\ pc[p] = "pngs"
    /\ LET e == Sizes[idx[p]] IN
       \E ok \in BOOLEAN :
         IF ok /\ iconDirExists
           THEN /\ iconFiles' = WriteFile(iconFiles, PngFile(e.name, Resize(SourceImage, e.size)))
                /\ wrote' = [wrote EXCEPT ![p] = @ \cup {e.name}]
                /\ Say(p, e.name)
                /\ IF LoopEnds(Sizes, idx[p])
                     THEN /\ idx' = [idx EXCEPT ![p] = 1]
                          /\ Goto(p, "ico")
                     ELSE /\ idx' = [idx EXCEPT ![p] = @ + 1]
                          /\ Goto(p, "pngs")
           ELSE /\ UNCHANGED << iconFiles, wrote, console, idx >>
                /\ Abort(p)
    /\ UNCHANGED << iconDirExists, pubDirExists, pubFiles, iconsetExists, iconsetFiles >>
    /\ UNCHANGED << compOutcome, entry, runs >>
    /\ UNCHANGED envVars

\* img.save(<tauri_icons_dir>/icon.ico, format='ICO', sizes=[256 .. 16])
SaveIco(p) ==
    /\ pc[p] = "ico"
    /\ \E ok \in BOOLEAN :
         IF ok /\ iconDirExists
           THEN /\ iconFiles' = WriteFile(iconFiles, IcoFile("icon.ico", SourceImage, IcoSizes))
                /\ wrote' = [wrote EXCEPT ![p] = @ \cup {"icon.ico"}]
                /\ Say(p, "icon.ico")
                /\ Goto(p, "favicon")
           ELSE /\ UNCHANGED << iconFiles, wrote, console >>
                /\ Abort(p)
    /\ UNCHANGED << iconDirExists, pubDirExists, pubFiles, iconsetExists, iconsetFiles >>
    /\ UNCHANGED << idx, compOutcome, entry, runs >>
    /\ UNCHANGED envVars

\* img.save(<public_dir>/favicon.ico, format='ICO', sizes=[48, 32, 16])
SaveFavicon(p) ==
    /\ pc[p] = "favicon"
    /\ \E ok \in BOOLEAN :
         IF ok /\ pubDirExists
           THEN /\ pubFiles' = WriteFile(pubFiles, IcoFile("favicon.ico", SourceImage, FaviconSizes))
                /\ wrote' = [wrote EXCEPT ![p] = @ \cup {"favicon.ico"}]
                /\ Say(p, "favicon.ico")
                /\ Goto(p, "mkiconset")
           ELSE /\ UNCHANGED << pubFiles, wrote, console >>
                /\ Abort(p)
    /\ UNCHANGED << iconDirExists, iconFiles, pubDirExists, iconsetExists, iconsetFiles >>
    /\ UNCHANGED << idx, compOutcome, entry, runs >>
    /\ UNCHANGED envVars

\* The directory made under another name than the one the loop writes to.
MakeIconsetDirElsewhere(p) ==
    /\ pc[p] = "mkiconset"
    /\ \E ok \in BOOLEAN :
         IF ok THEN /\ wrote' = [wrote EXCEPT ![p] = @ \cup {iconset_dir}]
                    /\ Goto(p, "iconset")
               ELSE /\ UNCHANGED wrote
                    /\ Abort(p)
    /\ UNCHANGED fsVars
    /\ UNCHANGED << idx, compOutcome, console, entry, runs >>
    /\ UNCHANGED envVars

\* iconset_dir = 'ProjectLens.iconset'; os.makedirs(iconset_dir, exist_ok=True)
MakeIconsetDir(p) ==
    /\ pc[p] = "mkiconset"
    /\ \E ok \in BOOLEAN :
         IF ok THEN /\ iconsetExists' = TRUE
                    /\ wrote' = [wrote EXCEPT ![p] = @ \cup {iconset_dir}]
                    /\ Goto(p, "iconset")
               ELSE /\ UNCHANGED << iconsetExists, wrote >>
                    /\ Abort(p)
    /\ UNCHANGED << iconDirExists, iconFiles, pubDirExists, pubFiles, iconsetFiles >>
    /\ UNCHANGED << idx, compOutcome, console, entry, runs >>
    /\ UNCHANGED envVars

\* One iteration of: for filename, size in iconset_sizes.items(): resize, save.
\* Saving into a directory that is gone raises FileNotFoundError.
SaveIconsetEntry(p) ==
    /\ pc[p] = "iconset"
    /\ LET e == IconsetSizes[idx[p]] IN
       \E ok \in BOOLEAN :
         IF ok /\ iconsetExists
           THEN /\ iconsetFiles' = WriteFile(iconsetFiles, PngFile(e.name, Resize(SourceImage, e.size)))
                /\ wrote' = [wrote EXCEPT ![p] = @ \cup {e.name}]
                /\ IF LoopEnds(IconsetSizes, idx[p])
                     THEN /\ idx' = [idx EXCEPT ![p] = 1]
                          /\ Goto(p, "iconutil")
                     ELSE /\ idx' = [idx EXCEPT ![p] = @ + 1]
                          /\ Goto(p, "iconset")
           ELSE /\ UNCHANGED << iconsetFiles, wrote, idx >>
                /\ Abort(p)
    /\ UNCHANGED << iconDirExists, iconFiles, pubDirExists, pubFiles, iconsetExists >>
    /\ UNCHANGED << compOutcome, console, entry, runs >>
    /\ UNCHANGED envVars

\* The iconset iconutil needs: the directory with all ten entries.
IconsetComplete == iconsetExists /\ NamesOf(IconsetSizes) \subseteq FileNames(iconsetFiles)

\* What subprocess.run(['iconutil', ...], check=True) can do: succeed (only on
\* a complete iconset), exit non-zero (CalledProcessError), be missing from
\* the host (FileNotFoundError), or fail to launch with another OSError.
CompilerOutcomes ==
    (IF IconsetComplete /\ iconDirExists THEN {"ok"} ELSE {})
        \cup {"nonzero", "notfound", "oserror"}

\* A compiler that leaves its output file behind when it exits non-zero.
IcnsWrittenAlsoOnFailure(o) == o \in {"ok", "nonzero"}

\* iconutil writes the -o file when it succeeds.
IcnsWritten(o) == o = "ok"

\* Only the CalledProcessError clause, the FileNotFoundError clause missing.
CaughtWithoutNotFound == {"nonzero"}

\* The outcomes the two except clauses catch.
Caught == {"nonzero", "notfound"}

CaughtMessage(o) ==
    IF o = "nonzero" THEN "Error generating icns"
                     ELSE "iconutil not found, skipping icns generation"

\* try: subprocess.run(...); print("Generated icon.icns")
\* except CalledProcessError: print(...)  except FileNotFoundError: print(...)
RunIconutil(p) ==
    /\ pc[p] = "iconutil"
    /\ \E o \in CompilerOutcomes :
         /\ compOutcome' = [compOutcome EXCEPT ![p] = o]
         /\ IF IcnsWritten(o)
              THEN /\ iconFiles' = WriteFile(iconFiles, IcnsFile)
                   /\ wrote' = [wrote EXCEPT ![p] = @ \cup {"icon.icns"}]
              ELSE UNCHANGED << iconFiles, wrote >>
         /\ IF o = "ok"
              THEN /\ Say(p, "icon.icns")
                   /\ Goto(p, "cleanup")
              ELSE IF o \in Caught
              THEN /\ Say(p, CaughtMessage(o))
                   /\ Goto(p, "cleanup")
              ELSE /\ UNCHANGED console
                   /\ Abort(p)
    /\ UNCHANGED << iconDirExists, pubDirExists, pubFiles, iconsetExists, iconsetFiles >>
    /\ UNCHANGED << idx, entry, runs >>
    /\ UNCHANGED envVars

\* The rmtree placed inside the try block, after the compiler call: a caught
\* compiler failure skips it.
CleanupInsideTry(p) ==
    /\ pc[p] = "cleanup"
    /\ IF compOutcome[p] # "ok"
         THEN /\ UNCHANGED << iconsetExists, iconsetFiles, console >>
              /\ pc' = [pc EXCEPT ![p] = "done"]
              /\ result' = [result EXCEPT ![p] = "returned"]
         ELSE IF iconsetExists
         THEN /\ iconsetExists' = FALSE
              /\ iconsetFiles' = {}
              /\ Say(p, "Cleaned up iconset directory")
              /\ pc' = [pc EXCEPT ![p] = "done"]
              /\ result' = [result EXCEPT ![p] = "returned"]
         ELSE /\ UNCHANGED << iconsetExists, iconsetFiles, console >>
              /\ Abort(p)
    /\ UNCHANGED << iconDirExists, iconFiles, pubDirExists, pubFiles >>
    /\ UNCHANGED << idx, compOutcome, wrote, entry, runs >>
    /\ UNCHANGED envVars

\* shutil.rmtree(iconset_dir); print("Cleaned up iconset directory")
\* rmtree of a directory that is gone raises FileNotFoundError.
Cleanup(p) ==
    /\ pc[p] = "cleanup"
    /\ IF iconsetExists
         THEN /\ iconsetExists' = FALSE
              /\ iconsetFiles' = {}
              /\ Say(p, "Cleaned up iconset directory")
              /\ pc' = [pc EXCEPT ![p] = "done"]
              /\ result' = [result EXCEPT ![p] = "returned"]
         ELSE /\ UNCHANGED << iconsetExists, iconsetFiles, console >>
              /\ Abort(p)
    /\ UNCHANGED << iconDirExists, iconFiles, pubDirExists, pubFiles >>
    /\ UNCHANGED << idx, compOutcome, wrote, entry, runs >>
    /\ UNCHANGED envVars

Step(p) ==
    \/ Start(p)
    \/ CheckSource(p)
    \/ OpenSource(p)
    \/ MakeIconsDir(p)
    \/ MakePublicDir(p)
    \/ SavePng(p)
    \/ SaveIco(p)
    \/ SaveFavicon(p)
    \/ MakeIconsetDir(p)
    \/ SaveIconsetEntry(p)
    \/ RunIconutil(p)
    \/ Cleanup(p)

\* The design's case: one invocation at a time, run after run.
Next == Step(1)

Spec == Init /\ [][Next]_vars

\* Two invocations started from the same working directory.
NextConc == \E p \in Procs : Step(p)

\* They start from existing, empty destination directories and a large source.
InitConc ==
    /\ Init
    /\ srcDecodable
    /\ srcSize = 1024
    /\ iconDirExists
    /\ pubDirExists

SpecConc == InitConc /\ [][NextConc]_vars

----------------------------------------------------------------------------
\* The properties.

FlatNames == {"32x32.png", "128x128.png", "128x128@2x.png", "icon.png"}

CompilerFailed(p) == compOutcome[p] \in {"nonzero", "notfound"}

Returned(p) == pc[p] = "done" /\ result[p] = "returned"

\* The iconset naming convention: icon_NxN.png and icon_NxN@2x.png.
LogicalSizes == {16, 32, 128, 256, 512}

PlainEntry(n) ==
    CASE n = 16  -> "icon_16x16.png"
      [] n = 32  -> "icon_32x32.png"
      [] n = 128 -> "icon_128x128.png"
      [] n = 256 -> "icon_256x256.png"
      [] n = 512 -> "icon_512x512.png"

RetinaEntry(n) ==
    CASE n = 16  -> "icon_16x16@2x.png"
      [] n = 32  -> "icon_32x32@2x.png"
      [] n = 128 -> "icon_128x128@2x.png"
      [] n = 256 -> "icon_256x256@2x.png"
      [] n = 512 -> "icon_512x512@2x.png"

HasSide(f, n) == f.dims = { <<n, n>> }

\* The frames n x n, for n in S.
Squares(S) == { <<n, n>> : n \in S }

\* The invocation is at a step that uses the temporary directory, and the
\* directory is missing or lacks entries.
ActsOnBrokenIconset(p) ==
    \/ pc[p] = "iconset" /\ ~iconsetExists
    \/ pc[p] \in {"iconutil", "cleanup"} /\ ~IconsetComplete

\* C1: when the source path does not exist, the invocation reports it and
\* returns, having made no directory and written no file: the filesystem is
\* as it was when the invocation started.
SourceNotFoundLeavesFilesystem ==
    \A p \in Procs :
        (pc[p] \notin {"idle", "check"} /\ ~srcExists) =>
            /\ Returned(p)
            /\ "Error: Source file not found" \in console[p]
            /\ wrote[p] = {}
            /\ Snapshot = entry[p]

\* A run that found no source, after an earlier run had filled the
\* destination directories.
SourceNotFoundAfterEarlierRun ==
    /\ Returned(1) /\ ~srcExists
    /\ "Error: Source file not found" \in console[1]
    /\ "icon.icns" \in FileNames(iconFiles)
    /\ "favicon.ico" \in FileNames(pubFiles)

\* C2: once an invocation that reached the compiler step is over with one of
\* the three handled compiler outcomes (success, non-zero exit, tool not
\* found), it has returned and the temporary iconset directory is gone.
TempDirGoneAfterReturn ==
    \A p \in Procs :
        (pc[p] = "done" /\ compOutcome[p] \in {"ok", "nonzero", "notfound"}) =>
            /\ result[p] = "returned"
            /\ ~iconsetExists
            /\ iconsetFiles = {}

\* The compiler was missing, the step was skipped, the run returned.
ReturnedAfterSkippedCompile ==
    /\ Returned(1) /\ compOutcome[1] = "notfound"
    /\ iconset_dir \in wrote[1]

\* C3: a run on a valid source with a successful compile that started from
\* empty destination directories returns with exactly the six files in the
\* icon directory and exactly favicon.ico in the web directory.
ExactlySevenOutputs ==
    \A p \in Procs :
        (/\ Returned(p) /\ compOutcome[p] = "ok"
         /\ entry[p].iconFiles = {} /\ entry[p].pubFiles = {}) =>
            /\ FileNames(iconFiles) = {"32x32.png", "128x128.png", "128x128@2x.png",
                                       "icon.png", "icon.ico", "icon.icns"}
            /\ Cardinality(iconFiles) = 6
            /\ FileNames(pubFiles) = {"favicon.ico"}
            /\ Cardinality(pubFiles) = 1

\* A successful run from empty directories that has returned.
SuccessfulRunFromEmpty ==
    /\ Returned(1) /\ compOutcome[1] = "ok"
    /\ entry[1].iconFiles = {} /\ entry[1].pubFiles = {}
    /\ "icon.icns" \in wrote[1]

\* C4: a compiler failure (tool not found, or non-zero exit) is reported and
\* does not abort the run: the run goes on to the cleanup step and returns,
\* and the four PNGs, icon.ico and favicon.ico are still there.
CompilerFailureIsWarning ==
    \A p \in Procs :
        CompilerFailed(p) =>
            /\ pc[p] \in {"cleanup", "done"}
            /\ result[p] # "aborted"
            /\ CaughtMessage(compOutcome[p]) \in console[p]
            /\ FlatNames \cup {"icon.ico"} \subseteq FileNames(iconFiles)
            /\ "favicon.ico" \in FileNames(pubFiles)
            /\ pc[p] = "done" =>
                  /\ result[p] = "returned"
                  /\ "Cleaned up iconset directory" \in console[p]

\* The tool was not found and the run has returned after its cleanup.
ReturnedAfterMissingTool ==
    /\ Returned(1) /\ compOutcome[1] = "notfound"
    /\ "Cleaned up iconset directory" \in console[1]
    /\ FlatNames \cup {"icon.ico"} \subseteq FileNames(iconFiles)

\* C5, as claimed: after a run in which the compiler failed, icon.icns is
\* absent from the icon directory, whatever the directory held before.
IcnsAbsentAfterCompilerFailure ==
    \A p \in Procs :
        (Returned(p) /\ CompilerFailed(p)) => "icon.icns" \notin FileNames(iconFiles)

\* C5, amended: a run in which the compiler failed neither writes nor removes
\* icon.icns; it is absent afterwards exactly when it was absent before.
IcnsUntouchedByCompilerFailure ==
    \A p \in Procs :
        CompilerFailed(p) =>
            /\ "icon.icns" \notin wrote[p]
            /\ ("icon.icns" \in FileNames(iconFiles))
                   <=> ("icon.icns" \in FileNames(entry[p].iconFiles))

\* The compiler exited non-zero in a run that started without icon.icns.
FailedCompileWithoutEarlierIcns ==
    /\ Returned(1) /\ compOutcome[1] = "nonzero"
    /\ "icon.icns" \notin FileNames(entry[1].iconFiles)
    /\ "icon.icns" \notin FileNames(iconFiles)

\* C6, as claimed: on every path by which an invocation that has made the
\* temporary directory ends, by return or by an uncaught error, the temporary
\* directory no longer exists.
TempDirGoneOnEveryExit ==
    \A p \in Procs :
        (pc[p] = "done" /\ iconset_dir \in wrote[p]) => ~iconsetExists

\* C7: every PNG in the icon directory and in the iconset has the pixel size
\* its name stands for, and every manifest entry is square.
PngDimensionsMatchManifest ==
    /\ \A f \in iconFiles :
          /\ f.name = "32x32.png"      => HasSide(f, 32)
          /\ f.name = "128x128.png"    => HasSide(f, 128)
          /\ f.name = "128x128@2x.png" => HasSide(f, 256)
          /\ f.name = "icon.png"       => HasSide(f, 512)
    /\ \A f \in iconsetFiles :
          /\ \E n \in LogicalSizes : f.name \in {PlainEntry(n), RetinaEntry(n)}
          /\ \A n \in LogicalSizes :
                /\ f.name = PlainEntry(n)  => HasSide(f, n)
                /\ f.name = RetinaEntry(n) => HasSide(f, 2 * n)
    /\ \A p \in Procs :
          /\ pc[p] \in {"ico", "favicon", "mkiconset", "iconset", "iconutil", "cleanup"}
                => FlatNames \subseteq wrote[p]
          /\ pc[p] \in {"iconutil", "cleanup"}
                => { PlainEntry(n) : n \in LogicalSizes }
                     \cup { RetinaEntry(n) : n \in LogicalSizes } \subseteq wrote[p]
    /\ \A i \in 1..Len(Sizes) : Sizes[i].size[1] = Sizes[i].size[2]
    /\ \A i \in 1..Len(IconsetSizes) : IconsetSizes[i].size[1] = IconsetSizes[i].size[2]

\* All four flat PNGs and all ten iconset entries are on disk, made from a
\* source smaller than most of them.
AllPngsWrittenFromSmallSource ==
    /\ pc[1] = "iconutil" /\ srcSize = 64
    /\ Cardinality(iconsetFiles) = 10
    /\ FlatNames \subseteq FileNames(iconFiles)

IconsetRaceNeedsTwoInvocations ==
    \A p \in Procs :
        ActsOnBrokenIconset(p) => \E q \in Procs \ {p} : pc[q] # "idle"

\* One invocation has returned from its cleanup while the other is still
\* populating the directory, which is gone.
RemovedWhileOtherPopulates ==
    \E p \in Procs : \E q \in Procs \ {p} :
        /\ pc[p] = "iconset" /\ idx[p] > 1 /\ ~iconsetExists
        /\ Returned(q) /\ "Cleaned up iconset directory" \in console[q]

\* C10: the temporary directory is made only after the four PNGs, icon.ico
\* and favicon.ico have been written; the compiler is invoked only after all
\* ten iconset entries have been written; the directory is removed only
\* after the compiler invocation has completed, by the invocation itself.
StepsInOrder ==
    [][ \A p \in Procs :
          /\ (iconset_dir \notin wrote[p] /\ iconset_dir \in wrote'[p]) =>
                /\ FlatNames \cup {"icon.ico", "favicon.ico"} \subseteq wrote[p]
                /\ FlatNames \cup {"icon.ico"} \subseteq FileNames(iconFiles)
                /\ "favicon.ico" \in FileNames(pubFiles)
          /\ (compOutcome[p] = "none" /\ compOutcome'[p] # "none") =>
                /\ NamesOf(IconsetSizes) \subseteq wrote[p]
                /\ Cardinality(NamesOf(IconsetSizes)) = 10
                /\ IconsetComplete
          /\ (pc[p] # "idle" /\ iconsetExists /\ ~iconsetExists') =>
                /\ compOutcome[p] \in {"ok", "nonzero", "notfound"}
                /\ compOutcome'[p] = compOutcome[p]
                /\ pc[p] = "cleanup"
      ]_vars

\* A whole run, through compile and cleanup.
WholeRunReturned ==
    /\ Returned(1) /\ compOutcome[1] = "ok"
    /\ "Cleaned up iconset directory" \in console[1]

====
